---- MODULE Spec2Model ----
(***************************************************************************)
(* Model of src/app.py: four explicit finite-difference schemes for the   *)
(* 1-D advection equation on a periodic grid (FECS, Upwind, Leapfrog,     *)
(* Lax-Wendroff), the initial-condition generator, and the total-mass     *)
(* diagnostic.                                                             *)
(*                                                                         *)
(* Numbers.  Every field value of the program is a numpy float64.  It is  *)
(* modelled by a binary floating-point number with Prec significand bits, *)
(* round-to-nearest-even, written as an integer multiple of the smallest  *)
(* positive number of the format (the quantum, 1).  Representable are the *)
(* integers m * 2^e with |m| < 2^Prec and e >= 0.  The value 1.0 of the   *)
(* program is One quanta.  Every arithmetic operation of the source is    *)
(* one rounded operation of the model, in the source's order.             *)
(*                                                                         *)
(* The Courant number C is kept in halves (C = 1 is 0.5, ..., 4 is 2.0):  *)
(* for these slider positions C, 0.5*C, C**2 and 0.5*C**2 are exact       *)
(* float64 values, so a coefficient is an exact rational num/den and only *)
(* its product with a field value rounds.  Lengths, positions, sigma,     *)
(* velocity and time are kept in hundredths.                               *)
(*                                                                         *)
(* Memory.  numpy arrays and Python lists are objects: arr is the heap of *)
(* arrays and lst the heap of lists, both indexed by object id (0 is an   *)
(* unbound name).  A program variable holds an id, .copy() and arithmetic *)
(* allocate a new array, list.append changes the list in place.           *)
(*                                                                         *)
(* rounded and mrounded are the inexact status of the floating-point      *)
(* operations, kept per scheme; the program does not read them.           *)
(*                                                                         *)
(* Sizes.  Nx stands for the slider's resolutions (50 .. 800) and Nt for  *)
(* the step counts they give; both are kept small.  v and T_max are used  *)
(* for Nt alone (lines 25-26) and are not kept after it.                  *)
(***************************************************************************)
EXTENDS Integers, Sequences, FiniteSets, TLC

MaxNx == 3
MaxNt == 3
MaxNxIC == 4
Prec == 3

VARIABLES
    pc,          \* position in the script
    wave_shape,  \* line 12
    L,           \* line 17, hundredths
    Nx,          \* line 21
    C,           \* line 23, halves
    dx,          \* line 24, <<numerator, denominator>>
    Nt,          \* line 26
    show,        \* lines 34-37, the checkboxes the script has tested so far
    sigma,       \* line 40, hundredths
    x0,          \* line 41, hundredths
    x,           \* lines 43-44, sequence of <<numerator, denominator>>
    u0,          \* line 59, array id
    u,           \* array id
    u_prev,      \* array id
    u_curr,      \* array id
    u_all,       \* list id
    mass,        \* list id
    n,           \* loop counter
    solvers,     \* line 61, scheme name -> list id
    integrals,   \* line 62, scheme name -> list id
    arr,         \* heap of numpy arrays
    lst,         \* heap of Python lists
    rounded,     \* schemes one of whose field operations was inexact
    mrounded     \* schemes one of whose mass operations was inexact

vars == <<pc, wave_shape, L, Nx, C, dx, Nt, show, sigma, x0, x, u0, u, u_prev,
          u_curr, u_all, mass, n, solvers, integrals, arr, lst, rounded, mrounded>>

Schemes == {"FECS", "Upwind", "Leapfrog", "Lax-Wendroff"}

----------------------------------------------------------------------------
(* float64 arithmetic at Prec bits                                         *)

RECURSIVE Pow2(_)
Pow2(k) == IF k = 0 THEN 1 ELSE 2 * Pow2(k - 1)

Abs(a) == IF a < 0 THEN -a ELSE a

\* a/d (d > 0) rounded to the nearest integer, ties to the even one
RoundHalfEven(a, d) ==
    LET q == a \div d
        r == a % d
    IN  IF 2 * r < d THEN q
        ELSE IF 2 * r > d THEN q + 1
        ELSE IF q % 2 = 0 THEN q ELSE q + 1

\* the exponent e >= 0 with m/b < 2^Prec * 2^e, least
RECURSIVE ExpOf(_, _)
ExpOf(m, b) == IF m < Pow2(Prec) * b THEN 0 ELSE 1 + ExpOf(m, 2 * b)

\* the rational a/b (b > 0) rounded to the nearest representable number
Fl(a, b) ==
    LET g == Pow2(ExpOf(Abs(a), b))
    IN  RoundHalfEven(a, b * g) * g

IsExact(a, b) == Fl(a, b) * b = a

One == Pow2(Prec + 1)

FSub(a, b) == Fl(a - b, 1)
FAdd(a, b) == Fl(a + b, 1)
FMul(num, den, t) == Fl(num * t, den)

----------------------------------------------------------------------------
(* numpy operations on fields                                              *)

\* np.roll(f, k): out[(i + k) mod Nx] = f[i]
Roll(f, k) == [i \in 1..Len(f) |-> f[((i - 1 - k) % Len(f)) + 1]]

\* base - (num/den) * (r - l), three rounded operations
Centered(num, den, base, r, l) == FSub(base, FMul(num, den, FSub(r, l)))

CenteredExact(num, den, base, r, l) ==
    /\ IsExact(r - l, 1)
    /\ IsExact(num * FSub(r, l), den)
    /\ IsExact(base - FMul(num, den, FSub(r, l)), 1)

\* line 69: u - 0.5 * C * (np.roll(u, -1) - np.roll(u, 1))
FecsUpdate(c, f) ==
    [i \in 1..Len(f) |-> Centered(c, 4, f[i], Roll(f, -1)[i], Roll(f, 1)[i])]

FecsExact(c, f) ==
    \A i \in 1..Len(f) : CenteredExact(c, 4, f[i], Roll(f, -1)[i], Roll(f, 1)[i])

\* mutant: the neighbour on the other side, np.roll(u, -1)
UpwindUpdateOtherSide(c, f) ==
    [i \in 1..Len(f) |-> Centered(c, 2, f[i], f[i], Roll(f, -1)[i])]

\* mutant: the difference downwind, u - C * (np.roll(u, -1) - u)
UpwindUpdateDownwind(c, f) ==
    [i \in 1..Len(f) |-> Centered(c, 2, f[i], Roll(f, -1)[i], f[i])]

\* line 81: u - C * (u - np.roll(u, 1))
UpwindUpdate(c, f) ==
    [i \in 1..Len(f) |-> Centered(c, 2, f[i], f[i], Roll(f, 1)[i])]

UpwindExact(c, f) ==
    \A i \in 1..Len(f) : CenteredExact(c, 2, f[i], f[i], Roll(f, 1)[i])

\* line 90: u_prev - 0.5 * C * (np.roll(u_prev, -1) - np.roll(u_prev, 1))
LeapfrogBootstrap(c, f) ==
    [i \in 1..Len(f) |-> Centered(c, 4, f[i], Roll(f, -1)[i], Roll(f, 1)[i])]

\* mutant: one time level, u_curr - C * (...)
LeapfrogUpdateFromCurr(c, fp, fc) ==
    [i \in 1..Len(fc) |-> Centered(c, 2, fc[i], Roll(fc, -1)[i], Roll(fc, 1)[i])]

\* line 95: u_prev - C * (np.roll(u_curr, -1) - np.roll(u_curr, 1))
LeapfrogUpdate(c, fp, fc) ==
    [i \in 1..Len(fc) |-> Centered(c, 2, fp[i], Roll(fc, -1)[i], Roll(fc, 1)[i])]

LeapfrogExact(c, fp, fc) ==
    \A i \in 1..Len(fc) : CenteredExact(c, 2, fp[i], Roll(fc, -1)[i], Roll(fc, 1)[i])

\* line 108: 0.5 * C * (np.roll(u, -1) - np.roll(u, 1))
LwTerm1(c, r, l) == FMul(c, 4, FSub(r, l))

\* mutant: the centre taken once, np.roll(u, -1) - u + np.roll(u, 1)
LwTerm2CentreOnce(c, a, r, l) == FMul(c * c, 8, FAdd(FSub(r, a), l))

\* line 109: 0.5 * C**2 * (np.roll(u, -1) - 2*u + np.roll(u, 1))
LwTerm2(c, a, r, l) == FMul(c * c, 8, FAdd(FSub(r, 2 * a), l))

\* lines 108-110: u - term1 + term2
LaxWendroffUpdate(c, f) ==
    [i \in 1..Len(f) |->
        FAdd(FSub(f[i], LwTerm1(c, Roll(f, -1)[i], Roll(f, 1)[i])),
             LwTerm2(c, f[i], Roll(f, -1)[i], Roll(f, 1)[i]))]

LaxWendroffExact(c, f) ==
    \A i \in 1..Len(f) :
        LET r == Roll(f, -1)[i]
            l == Roll(f, 1)[i]
            t1 == LwTerm1(c, r, l)
            t2 == LwTerm2(c, f[i], r, l)
        IN  /\ IsExact(r - l, 1)
            /\ IsExact(c * FSub(r, l), 4)
            /\ IsExact(r - 2 * f[i], 1)
            /\ IsExact(FSub(r, 2 * f[i]) + l, 1)
            /\ IsExact(c * c * FAdd(FSub(r, 2 * f[i]), l), 8)
            /\ IsExact(f[i] - t1, 1)
            /\ IsExact(FSub(f[i], t1) + t2, 1)

\* np.sum(f): the elements added from the left, each addition rounded
RECURSIVE FlSum(_)
FlSum(f) == IF Len(f) = 0 THEN 0
            ELSE FAdd(FlSum(SubSeq(f, 1, Len(f) - 1)), f[Len(f)])

RECURSIVE Sum(_)
Sum(f) == IF Len(f) = 0 THEN 0 ELSE Sum(SubSeq(f, 1, Len(f) - 1)) + f[Len(f)]

\* mutant: the sum without dx
MassOfSumOnly(f, d) == FlSum(f)

\* lines 67, 72: np.sum(u) * dx
MassOf(f, d) == FMul(d[1], d[2], FlSum(f))

MassExact(f, d) == FlSum(f) = Sum(f) /\ IsExact(d[1] * Sum(f), d[2])

----------------------------------------------------------------------------
(* objects                                                                 *)

\* a new array holding val
Alloc(a, val) == [heap |-> Append(a, val), id |-> Len(a) + 1]

\* mutant: no copy, the same array under another name
CopyArrAlias(a, id) == [heap |-> a, id |-> id]

\* ndarray.copy()
CopyArr(a, id) == Alloc(a, a[id])

\* a list display [ ... ]
NewList(l, items) == [heap |-> Append(l, items), id |-> Len(l) + 1]

\* list.append
ListAppend(l, id, item) == [l EXCEPT ![id] = Append(@, item)]

\* d[k] = v
Put(d, k, v) == [j \in (DOMAIN d) \cup {k} |-> IF j = k THEN v ELSE d[j]]

Flag(set, scheme, exact) == IF exact THEN set ELSE set \cup {scheme}

----------------------------------------------------------------------------
(* configuration, lines 12-41                                              *)

Shapes == {"Square Pulse", "Triangle Wave"}
Lengths == {100, 200}
RunLengths == {600}
Velocities == {10, 100, 500}
Times == {10, 100, 200, 300, 500}
Courants == {1, 2, 3, 4}
Sigmas == {1, 5, 25, 30, 50}
Centers == {0, 25, 50, 75, 100}
Vals == {0, 1, One}

\* line 24: dx = L / float(Nx)
DxOf(len, nx) == <<len, 100 * nx>>

\* lines 25-26: dt = C * dx / v; Nt = int(round(T_max / dt))
NtOf(len, vel, tmax, c, nx) == RoundHalfEven(2 * tmax * vel * nx, 100 * c * len)

\* lines 43-44: np.linspace(0, L, Nx + 1) without its last point
Linspace(len, nx) == [i \in 1..nx |-> <<(i - 1) * len, nx>>]

\* mutant: p - center < sig, without np.abs
WithinSigned(p, center, sig) == p[1] - center * p[2] < sig * p[2]

\* np.abs(p - center) < sig for the grid point p = <<numerator, denominator>>
Within(p, center, sig) == Abs(p[1] - center * p[2]) < sig * p[2]

\* lines 46-57, the two shapes without exp and cos
get_initial_condition(xs, shape, sig, center, length) ==
    CASE shape = "Square Pulse" ->
            [i \in 1..Len(xs) |-> IF Within(xs[i], center, sig) THEN One ELSE 0]
      [] shape = "Triangle Wave" ->
            [i \in 1..Len(xs) |->
                IF Within(xs[i], center, sig)
                THEN FSub(One, Fl(One * Abs(xs[i][1] - center * xs[i][2]),
                                  sig * xs[i][2]))
                ELSE 0]

NoDict == [j \in {} |-> 0]

\* The state after line 62 for a shape whose values (exp, cos) the model
\* does not compute: u0 is any field of representable values.  A checkbox
\* (lines 34-37) is an input the script tests once, at its if: its value is
\* drawn there.
Init ==
    \E len \in RunLengths, vel \in Velocities, tmax \in Times, c \in Courants,
       nx \in 1..MaxNx :
        \E f \in [1..nx -> Vals] :
            /\ NtOf(len, vel, tmax, c, nx) <= MaxNt
            /\ pc = "fecs"
            /\ wave_shape = "Gaussian Bell"
            /\ L = len
            /\ Nx = nx
            /\ C = c
            /\ dx = DxOf(len, nx)
            /\ Nt = NtOf(len, vel, tmax, c, nx)
            /\ show = NoDict
            /\ sigma = 5
            /\ x0 = len \div 4
            /\ x = Linspace(len, nx)
            /\ u0 = 1
            /\ arr = <<f>>
            /\ u = 0 /\ u_prev = 0 /\ u_curr = 0 /\ u_all = 0 /\ mass = 0 /\ n = 0
            /\ solvers = NoDict /\ integrals = NoDict
            /\ lst = <<>>
            /\ rounded = {} /\ mrounded = {}

config == <<wave_shape, L, Nx, C, dx, Nt, sigma, x0, x, u0>>

----------------------------------------------------------------------------
(* the scheme blocks, lines 64-115                                         *)

\* lines 65-67 (77-79, 104-106): u = u0.copy(); u_all = [u.copy()];
\* mass = [np.sum(u) * dx]
StartOneLevel(scheme, loop) ==
    LET c1 == CopyArr(arr, u0)
        c2 == CopyArr(c1.heap, c1.id)
        l1 == NewList(lst, <<c2.id>>)
        l2 == NewList(l1.heap, <<MassOf(c1.heap[c1.id], dx)>>)
    IN  /\ u' = c1.id
        /\ arr' = c2.heap
        /\ u_all' = l1.id
        /\ mass' = l2.id
        /\ lst' = l2.heap
        /\ n' = 0
        /\ pc' = loop
        /\ show' = Put(show, scheme, TRUE)
        /\ mrounded' = Flag(mrounded, scheme, MassExact(arr[u0], dx))
        /\ UNCHANGED <<config, u_prev, u_curr, solvers, integrals, rounded>>

\* lines 69-72 (81-84, 108-113): u_next = ...; u = u_next;
\* u_all.append(u.copy()); mass.append(np.sum(u) * dx)
StepOneLevel(scheme, new, exact) ==
    LET a1 == Alloc(arr, new)
        c1 == CopyArr(a1.heap, a1.id)
    IN  /\ u' = a1.id
        /\ arr' = c1.heap
        /\ lst' = ListAppend(ListAppend(lst, u_all, c1.id),
                             mass, MassOf(a1.heap[a1.id], dx))
        /\ n' = n + 1
        /\ rounded' = Flag(rounded, scheme, exact)
        /\ mrounded' = Flag(mrounded, scheme, MassExact(new, dx))
        /\ UNCHANGED <<config, show, pc, u_prev, u_curr, u_all, mass, solvers,
                       integrals>>

\* lines 73-74 (85-86, 100-101, 114-115): solvers[name] = u_all;
\* integrals[name] = mass
Store(scheme, next) ==
    /\ solvers' = Put(solvers, scheme, u_all)
    /\ integrals' = Put(integrals, scheme, mass)
    /\ pc' = next
    /\ UNCHANGED <<config, show, u, u_prev, u_curr, u_all, mass, n, arr, lst,
                   rounded, mrounded>>

\* an if whose condition is false
Skip(scheme, next) ==
    /\ pc' = next
    /\ show' = Put(show, scheme, FALSE)
    /\ UNCHANGED <<config, u, u_prev, u_curr, u_all, mass, n, solvers,
                   integrals, arr, lst, rounded, mrounded>>

FecsInit == pc = "fecs" /\ StartOneLevel("FECS", "fecs_loop")

FecsSkip == pc = "fecs" /\ Skip("FECS", "upwind")

\* mutant: u[:] = u_next; u_all.append(u)
FecsStepInPlace ==
    /\ pc = "fecs_loop" /\ n < Nt
    /\ arr' = [arr EXCEPT ![u] = FecsUpdate(C, arr[u])]
    /\ lst' = ListAppend(ListAppend(lst, u_all, u),
                         mass, MassOf(FecsUpdate(C, arr[u]), dx))
    /\ n' = n + 1
    /\ rounded' = Flag(rounded, "FECS", FecsExact(C, arr[u]))
    /\ mrounded' = Flag(mrounded, "FECS", MassExact(FecsUpdate(C, arr[u]), dx))
    /\ UNCHANGED <<config, show, pc, u, u_prev, u_curr, u_all, mass, solvers,
                   integrals>>

FecsStep ==
    /\ pc = "fecs_loop" /\ n < Nt
    /\ StepOneLevel("FECS", FecsUpdate(C, arr[u]), FecsExact(C, arr[u]))

FecsStore == pc = "fecs_loop" /\ ~(n < Nt) /\ Store("FECS", "upwind")

UpwindInit == pc = "upwind" /\ StartOneLevel("Upwind", "upwind_loop")

UpwindSkip == pc = "upwind" /\ Skip("Upwind", "leapfrog")

UpwindStep ==
    /\ pc = "upwind_loop" /\ n < Nt
    /\ StepOneLevel("Upwind", UpwindUpdate(C, arr[u]), UpwindExact(C, arr[u]))

UpwindStore == pc = "upwind_loop" /\ ~(n < Nt) /\ Store("Upwind", "leapfrog")

\* lines 89-92
LeapfrogInit ==
    /\ pc = "leapfrog"
    /\ show' = Put(show, "Leapfrog", TRUE)
    /\ LET c1 == CopyArr(arr, u0)
           a2 == Alloc(c1.heap, LeapfrogBootstrap(C, c1.heap[c1.id]))
           c3 == CopyArr(a2.heap, c1.id)
           c4 == CopyArr(c3.heap, a2.id)
           l1 == NewList(lst, <<c3.id, c4.id>>)
           l2 == NewList(l1.heap, <<MassOf(c4.heap[c1.id], dx),
                                    MassOf(c4.heap[a2.id], dx)>>)
       IN  /\ u_prev' = c1.id
           /\ u_curr' = a2.id
           /\ arr' = c4.heap
           /\ u_all' = l1.id
           /\ mass' = l2.id
           /\ lst' = l2.heap
           /\ n' = 0
           /\ pc' = "leapfrog_loop"
           /\ rounded' = Flag(rounded, "Leapfrog", FecsExact(C, arr[u0]))
           /\ mrounded' = Flag(mrounded, "Leapfrog",
                               /\ MassExact(arr[u0], dx)
                               /\ MassExact(a2.heap[a2.id], dx))
           /\ UNCHANGED <<config, u, solvers, integrals>>

LeapfrogSkip == pc = "leapfrog" /\ Skip("Leapfrog", "lw")

\* lines 95-99
LeapfrogStep ==
    /\ pc = "leapfrog_loop" /\ n < Nt - 1
    /\ LET new == LeapfrogUpdate(C, arr[u_prev], arr[u_curr])
           a1 == Alloc(arr, new)
           c1 == CopyArr(a1.heap, a1.id)
       IN  /\ u_prev' = u_curr
           /\ u_curr' = a1.id
           /\ arr' = c1.heap
           /\ lst' = ListAppend(ListAppend(lst, u_all, c1.id),
                                mass, MassOf(a1.heap[a1.id], dx))
           /\ n' = n + 1
           /\ rounded' = Flag(rounded, "Leapfrog",
                              LeapfrogExact(C, arr[u_prev], arr[u_curr]))
           /\ mrounded' = Flag(mrounded, "Leapfrog", MassExact(new, dx))
           /\ UNCHANGED <<config, show, pc, u, u_all, mass, solvers, integrals>>

LeapfrogStore == pc = "leapfrog_loop" /\ ~(n < Nt - 1) /\ Store("Leapfrog", "lw")

LwInit == pc = "lw" /\ StartOneLevel("Lax-Wendroff", "lw_loop")

LwSkip == pc = "lw" /\ Skip("Lax-Wendroff", "done")

LwStep ==
    /\ pc = "lw_loop" /\ n < Nt
    /\ StepOneLevel("Lax-Wendroff", LaxWendroffUpdate(C, arr[u]),
                    LaxWendroffExact(C, arr[u]))

LwStore == pc = "lw_loop" /\ ~(n < Nt) /\ Store("Lax-Wendroff", "done")

Next ==
    \/ FecsInit \/ FecsSkip \/ FecsStep \/ FecsStore
    \/ UpwindInit \/ UpwindSkip \/ UpwindStep \/ UpwindStore
    \/ LeapfrogInit \/ LeapfrogSkip \/ LeapfrogStep \/ LeapfrogStore
    \/ LwInit \/ LwSkip \/ LwStep \/ LwStore

Spec == Init /\ [][Next]_vars

----------------------------------------------------------------------------
(* the grid and the initial condition alone, lines 12-59                   *)

InitIC ==
    \E len \in Lengths, nx \in 1..MaxNxIC, shape \in Shapes, sig \in Sigmas,
       center \in Centers :
        /\ center <= len
        /\ pc = "grid"
        /\ wave_shape = shape
        /\ L = len
        /\ Nx = nx
        /\ C = 2
        /\ dx = DxOf(len, nx)
        /\ Nt = NtOf(len, 100, 100, 2, nx)
        /\ show = NoDict
        /\ sigma = sig
        /\ x0 = center
        /\ x = <<>>
        /\ u0 = 0
        /\ arr = <<>>
        /\ u = 0 /\ u_prev = 0 /\ u_curr = 0 /\ u_all = 0 /\ mass = 0 /\ n = 0
        /\ solvers = NoDict /\ integrals = NoDict
        /\ lst = <<>>
        /\ rounded = {} /\ mrounded = {}

\* lines 43-44
MakeGrid ==
    /\ pc = "grid"
    /\ x' = Linspace(L, Nx)
    /\ pc' = "ic"
    /\ UNCHANGED <<wave_shape, L, Nx, C, dx, Nt, show, sigma, x0, u0, u, u_prev,
                   u_curr, u_all, mass, n, solvers, integrals, arr, lst,
                   rounded, mrounded>>

\* line 59
InitialCondition ==
    /\ pc = "ic"
    /\ LET a == Alloc(arr, get_initial_condition(x, wave_shape, sigma, x0, L))
       IN  arr' = a.heap /\ u0' = a.id
    /\ pc' = "fecs"
    /\ UNCHANGED <<wave_shape, L, Nx, C, dx, Nt, show, sigma, x0, x, u, u_prev,
                   u_curr, u_all, mass, n, solvers, integrals, lst,
                   rounded, mrounded>>

NextIC == MakeGrid \/ InitialCondition

SpecIC == InitIC /\ [][NextIC]_vars

----------------------------------------------------------------------------
(* what the claims speak of                                                *)

LoopScheme ==
    CASE pc = "fecs_loop" -> "FECS"
      [] pc = "upwind_loop" -> "Upwind"
      [] pc = "leapfrog_loop" -> "Leapfrog"
      [] pc = "lw_loop" -> "Lax-Wendroff"
      [] OTHER -> "none"

\* <<scheme, History list, MassTrace list>> of every finished scheme and of
\* the scheme whose loop is running
Tracks ==
    {<<s, solvers[s], integrals[s]>> : s \in DOMAIN solvers}
    \cup (IF LoopScheme = "none" THEN {} ELSE {<<LoopScheme, u_all, mass>>})

\* the fields a History list holds
Fields(hid) == [k \in 1..Len(lst[hid]) |-> arr[lst[hid][k]]]

Range(f) == {f[i] : i \in DOMAIN f}
MinOf(f) == CHOOSE v \in Range(f) : \A w \in Range(f) : v <= w
MaxOf(f) == CHOOSE v \in Range(f) : \A w \in Range(f) : v >= w

RightOf(i) == (i % Nx) + 1
LeftOf(i) == ((i - 2) % Nx) + 1

AllRan == pc = "done" /\ DOMAIN solvers = Schemes

----------------------------------------------------------------------------
(* C1 *)

\* C1: when a scheme's run has finished, its History and its MassTrace
\* each have exactly Nt + 1 entries, for every Nt >= 0.
C1_StepCount ==
    \A s \in DOMAIN solvers :
        /\ Len(lst[solvers[s]]) = Nt + 1
        /\ Len(lst[integrals[s]]) = Nt + 1

----------------------------------------------------------------------------
(* C2 *)

\* the field f moved k cells to the right with wraparound: cell i holds what
\* cell i - k held
Shifted(f, k) == [i \in 1..Len(f) |-> f[((i - 1 - k) % Len(f)) + 1]]

PureShift(h) ==
    /\ \A k \in 1..(Len(h) - 1) : \A i \in 1..Nx : h[k + 1][i] = h[k][LeftOf(i)]
    /\ \A k \in 1..Len(h) : h[k] = Shifted(arr[u0], k - 1)

\* C2 as stated: with C = 1 every Upwind step gives each cell the value of
\* its left neighbour, and History[k] is u0 shifted by k cells, for every
\* initial field.
C2_PureShift ==
    \A t \in Tracks : (t[1] = "Upwind" /\ C = 2) => PureShift(Fields(t[2]))

\* C2 amended: the same, for the runs in which no floating-point operation
\* of an Upwind step rounded.
C2_PureShiftUnrounded ==
    \A t \in Tracks :
        (t[1] = "Upwind" /\ C = 2 /\ "Upwind" \notin rounded)
            => PureShift(Fields(t[2]))

C2_Witness ==
    /\ pc = "done" /\ "Upwind" \in DOMAIN solvers
    /\ C = 2 /\ Nt >= 2 /\ Nx = 3
    /\ "Upwind" \notin rounded
    /\ Cardinality(Range(arr[u0])) >= 2
    /\ Fields(solvers["Upwind"])[Nt + 1] # arr[u0]

----------------------------------------------------------------------------
(* C9 *)

Monotone(h) ==
    /\ \A k \in 1..(Len(h) - 1) : \A i \in 1..Nx :
          MinOf(h[k]) <= h[k + 1][i] /\ h[k + 1][i] <= MaxOf(h[k])
    /\ \A k \in 1..Len(h) : \A i \in 1..Nx :
          MinOf(arr[u0]) <= h[k][i] /\ h[k][i] <= MaxOf(arr[u0])

----------------------------------------------------------------------------
(* C3, under SpecIC *)

C3_Scenario ==
    /\ pc = "fecs" /\ wave_shape = "Square Pulse"
    /\ L = 100 /\ Nx = 4 /\ x0 = 50 /\ sigma = 30

C3_Grid == x = <<<<0, 4>>, <<100, 4>>, <<200, 4>>, <<300, 4>>>>

\* C3 as stated: the Square Pulse with L = 1, Nx = 4, x0 = 0.5, sigma = 0.3
\* on the grid {0, 0.25, 0.5, 0.75} is exactly {0, 1, 1, 0}.
C3_SquarePulse ==
    C3_Scenario => (C3_Grid /\ arr[u0] = <<0, One, One, 0>>)

\* C3 amended: on that grid the field is exactly {0, 1, 1, 1}: the point 0.75
\* is 0.25 from x0, which is less than sigma.
C3_SquarePulseAmended ==
    C3_Scenario => (C3_Grid /\ arr[u0] = <<0, One, One, One>>)

C3_Witness == C3_Scenario /\ Len(arr[u0]) = 4

----------------------------------------------------------------------------
(* C4 *)

\* C4: at every point of the run, for every scheme and every index k of its
\* History, MassTrace has an entry k and it is dx times the sum of the values
\* of History[k].
C4_MassTrace ==
    \A t \in Tracks :
        /\ Len(lst[t[3]]) = Len(lst[t[2]])
        /\ \A k \in 1..Len(lst[t[2]]) :
              lst[t[3]][k] = Fl(dx[1] * FlSum(arr[lst[t[2]][k]]), dx[2])

C4_Witness ==
    /\ AllRan /\ Nt >= 2 /\ Nx = 3 /\ dx[1] # dx[2]
    /\ \A s \in Schemes :
          /\ Fields(solvers[s])[2] # arr[u0]
          /\ lst[integrals[s]][Nt + 1] # 0

----------------------------------------------------------------------------
(* C5 *)

\* C5: Leapfrog's History[1] is the FECS step of u0,
\* u0[i] - 0.5*C*(u0[i+1] - u0[i-1]), and every later History[k] is
\* History[k-2][i] - C*(History[k-1][i+1] - History[k-1][i-1]), with periodic
\* indices.
C5_Leapfrog ==
    \A t \in Tracks :
        t[1] = "Leapfrog" =>
            LET h == Fields(t[2])
            IN  /\ Len(h) >= 2
                /\ h[1] = arr[u0]
                /\ \A i \in 1..Nx :
                      h[2][i] = Fl(arr[u0][i]
                                   - Fl(C * Fl(arr[u0][RightOf(i)]
                                               - arr[u0][LeftOf(i)], 1), 4), 1)
                /\ \A k \in 3..Len(h) : \A i \in 1..Nx :
                      h[k][i] = Fl(h[k - 2][i]
                                   - Fl(C * Fl(h[k - 1][RightOf(i)]
                                               - h[k - 1][LeftOf(i)], 1), 2), 1)

C5_Witness ==
    /\ pc = "done" /\ "Leapfrog" \in DOMAIN solvers
    /\ Nt >= 3 /\ Nx = 3
    /\ LET h == Fields(solvers["Leapfrog"])
       IN  /\ Len(h) = Nt + 1
           /\ h[2] # h[1] /\ h[3] # h[1] /\ h[4] # h[2] /\ h[3] # h[2]

----------------------------------------------------------------------------
(* C7 *)

\* C7: no step changes u0, an array that exists, an entry a list already
\* has, or the History a finished scheme has stored.
C7_NoMutation ==
    [][ /\ u0' = u0
        /\ \A id \in 1..Len(arr) : arr'[id] = arr[id]
        /\ \A id \in 1..Len(lst) :
              /\ Len(lst'[id]) >= Len(lst[id])
              /\ SubSeq(lst'[id], 1, Len(lst[id])) = lst[id]
        /\ \A s \in DOMAIN solvers :
              /\ s \in DOMAIN solvers'
              /\ solvers'[s] = solvers[s]
              /\ integrals'[s] = integrals[s] ]_vars

C7_Witness ==
    /\ AllRan /\ Nt >= 2 /\ Nx = 3
    /\ \A s \in Schemes :
          /\ Fields(solvers[s])[2] # arr[u0]
          /\ Fields(solvers[s])[3] # Fields(solvers[s])[2]

----------------------------------------------------------------------------
(* C8 *)

\* one update of a one-level scheme
OneStep(s, c, f) ==
    CASE s = "FECS" -> FecsUpdate(c, f)
      [] s = "Upwind" -> UpwindUpdate(c, f)
      [] s = "Lax-Wendroff" -> LaxWendroffUpdate(c, f)

\* the History a one-level block builds from the field f in nt steps
RECURSIVE OneLevelHistory(_, _, _, _)
OneLevelHistory(s, c, f, nt) ==
    IF nt <= 0 THEN <<f>>
    ELSE LET h == OneLevelHistory(s, c, f, nt - 1)
         IN  Append(h, OneStep(s, c, h[nt]))

\* the History the Leapfrog block builds: the bootstrap, then range(nt - 1)
RECURSIVE LeapfrogHistory(_, _, _)
LeapfrogHistory(c, f, nt) ==
    IF nt <= 1 THEN <<f, LeapfrogBootstrap(c, f)>>
    ELSE LET h == LeapfrogHistory(c, f, nt - 1)
         IN  Append(h, LeapfrogUpdate(c, h[nt - 1], h[nt]))

HistoryOf(s, c, f, nt) ==
    IF s = "Leapfrog" THEN LeapfrogHistory(c, f, nt)
    ELSE OneLevelHistory(s, c, f, nt)

\* C8: when the script has run its blocks, each scheme's History and
\* MassTrace are functions of (u0, C, Nt, dx) alone, whatever other schemes
\* are enabled or ran before it, and the schemes' Histories share no list and
\* no array, with one another or with u0.
C8_Independent ==
    pc = "done" =>
        /\ \A s \in DOMAIN solvers :
              LET h == HistoryOf(s, C, arr[u0], Nt)
              IN  /\ Fields(solvers[s]) = h
                  /\ lst[integrals[s]] = [k \in 1..Len(h) |-> MassOf(h[k], dx)]
                  /\ u0 \notin Range(lst[solvers[s]])
                  /\ Cardinality(Range(lst[solvers[s]])) = Len(lst[solvers[s]])
        /\ \A s, t \in DOMAIN solvers :
              s # t =>
                  /\ solvers[s] # solvers[t]
                  /\ integrals[s] # integrals[t]
                  /\ Range(lst[solvers[s]]) \cap Range(lst[solvers[t]]) = {}
        /\ \A s, t \in DOMAIN solvers : solvers[s] # integrals[t]

C8_Witness ==
    /\ AllRan /\ Nt >= 2 /\ Nx = 3
    /\ \A s \in Schemes : Fields(solvers[s])[3] # arr[u0]
    /\ \A s, t \in Schemes : s # t => Fields(solvers[s]) # Fields(solvers[t])

----------------------------------------------------------------------------
(* C10 *)

\* C10: where no floating-point operation of a scheme has rounded, its
\* update keeps the sum of the field: History[k+1] sums to what History[k]
\* sums to for FECS, Upwind and Lax-Wendroff; for Leapfrog History[1] sums
\* to what History[0] sums to and History[k] to what History[k-2] sums to;
\* and, the mass operations not having rounded either, every MassTrace entry
\* is dx times the sum of u0.
C10_Conservation ==
    \A t \in Tracks :
        t[1] \notin rounded =>
            LET h == Fields(t[2])
            IN  /\ t[1] # "Leapfrog" =>
                      \A k \in 2..Len(h) : Sum(h[k]) = Sum(h[k - 1])
                /\ t[1] = "Leapfrog" =>
                      /\ Sum(h[2]) = Sum(h[1])
                      /\ \A k \in 3..Len(h) : Sum(h[k]) = Sum(h[k - 2])
                /\ t[1] \notin mrounded =>
                      \A k \in 1..Len(h) :
                          lst[t[3]][k] * dx[2] = dx[1] * Sum(arr[u0])

C10_Witness ==
    /\ AllRan /\ Nt >= 2 /\ Nx = 3
    /\ rounded = {} /\ mrounded = {}
    /\ Sum(arr[u0]) # 0
    /\ \A s \in Schemes :
          /\ Fields(solvers[s])[2] # arr[u0]
          /\ Fields(solvers[s])[3] # Fields(solvers[s])[2]

====
